---- MODULE Spec2Model ----
EXTENDS Integers, Sequences, FiniteSets, TLC

(***************************************************************************)
(* Model of MonitorService (src/services/monitor_service.py): the health   *)
(* evaluator, the threshold alert engine with its dedup lookup, the body   *)
(* of one health_check_loop iteration, and the broadcast hub with the      *)
(* websocket endpoint of src/Backend/main.py that feeds it, the life       *)
(* cycle of the four loop tasks, and their ticks target by target on the   *)
(* one event loop they share.                                              *)
(*                                                                         *)
(* Units.  Percentages are integers in hundredths of a percent (9204 is    *)
(* 92.04%).  The clock is in minutes.  A dict is a function whose DOMAIN   *)
(* is its key set, so dict.get(k, default) is Get(d, k, default).          *)
(***************************************************************************)

VARIABLES
    now,          \* datetime.utcnow(), minutes since the engine started
    alerts,       \* the Alert table: a sequence of rows, the row id is the index
    pc,           \* position of health_check_loop inside the iteration for cur
    cur,          \* server.id of the iteration in progress (0 between iterations)
    health_data,  \* the loop's local health_data (<<>> between iterations)
    calls,        \* the create_alert calls made by the last step, with their results
    on_demand,    \* the bundle the last on-demand check returned to the API layer
    websocket_clients,  \* self.websocket_clients: the dict's entry table, in
                        \* insertion order, a deleted key leaving a dummy entry
    sockets,      \* the websocket connections accepted so far, the handle of a
                  \* connection being its index
    bcast,        \* the dict iterator and the locals of the broadcast_health_update
                  \* call in progress
    pass,         \* what the last broadcast pass did: the set it started from,
                  \* the sends it attempted, and how it ended
    events,       \* the headers of the messages handed to the hub so far
    monitoring_active,  \* self.monitoring_active
    tasks,        \* the loop tasks start_monitoring has created, in the order of
                  \* their creation
    starts,       \* the calls of start_monitoring made so far
    tick,         \* the tick of health_check_loop in progress: the servers its
                  \* query returned, the ones the for statement has still to
                  \* visit, and the ones run_health_check was called for
    server_status,  \* Server.status of every server
    stored,       \* the HealthCheck row added by the iteration in progress
    enabled,      \* the ids of the targets whose monitoring_enabled is true
    running,      \* the task the event loop is running (0 between two tasks)
    work          \* per task, the for statement of its tick in progress

\* The state of the broadcast hub and of the websocket endpoint
hubVars == <<websocket_clients, sockets, bcast, pass, events>>

\* The state of the scheduler
schedVars == <<monitoring_active, tasks, starts>>

\* The for statement of the health tick in progress, and the Server table
tickVars == <<tick, server_status>>

\* The target table as the loops read it, and the tasks inside their ticks
workVars == <<enabled, running, work>>

vars ==
    <<now, alerts, pc, cur, health_data, calls, on_demand, hubVars, schedVars,
      tickVars, stored, workVars>>

-----------------------------------------------------------------------------
(* Bounds of the model *)

MaxTime == 15          \* the clock stops advancing here
MaxOccurrences == 3    \* no step runs that would take the occurrence counts of the
                       \* Alert table, summed over its rows, beyond this

-----------------------------------------------------------------------------
(* Configuration and environment *)

alert_thresholds ==
    [cpu_critical |-> 90, cpu_warning |-> 80,
     memory_critical |-> 95, memory_warning |-> 85,
     disk_critical |-> 95, disk_warning |-> 90]

\* timedelta(minutes=10) of the dedup lookup
DedupMinutes == 10

\* n percent, in hundredths
Pct(n) == 100 * n

\* The Server table: server 1 is the local host, server 2 a remote web server.
Servers ==
    [i \in {1, 2} |->
        IF i = 1 THEN [hostname |-> "localhost", ip_address |-> "127.0.0.1", server_type |-> "generic"]
                 ELSE [hostname |-> "web01", ip_address |-> "10.0.0.2", server_type |-> "web"]]

ServerIds == DOMAIN Servers

EmptyDict == <<>>

Get(d, k, default) == IF k \in DOMAIN d THEN d[k] ELSE default

\* dict.update: the keys of m override those of d
Update(d, m) == m @@ d

-----------------------------------------------------------------------------
(* Health evaluator *)

\* The evaluator without its ping rule
assess_overall_health_NoPing(hd) ==
    LET cpu_usage == Get(hd, "cpu_usage", 0)
        memory_usage == Get(hd, "memory_usage", 0)
        disk_usage == Get(hd, "disk_usage", 0)
        http_check == Get(hd, "http_check", EmptyDict)
    IN  IF \/ cpu_usage > Pct(alert_thresholds.cpu_critical)
           \/ memory_usage > Pct(alert_thresholds.memory_critical)
           \/ disk_usage > Pct(alert_thresholds.disk_critical)
        THEN "critical"
        ELSE IF \/ cpu_usage > Pct(alert_thresholds.cpu_warning)
                \/ memory_usage > Pct(alert_thresholds.memory_warning)
                \/ disk_usage > Pct(alert_thresholds.disk_warning)
        THEN "warning"
        ELSE IF Get(http_check, "status", "None") = "error"
        THEN "warning"
        ELSE "healthy"

\* The evaluator with the warning thresholds tested before the critical ones
assess_overall_health_WarningFirst(hd) ==
    LET ping_status == Get(Get(Get(hd, "checks", EmptyDict), "ping", EmptyDict), "status", "None")
        cpu_usage == Get(hd, "cpu_usage", 0)
        memory_usage == Get(hd, "memory_usage", 0)
        disk_usage == Get(hd, "disk_usage", 0)
        http_check == Get(hd, "http_check", EmptyDict)
    IN  IF ping_status = "down" THEN "critical"
        ELSE IF \/ cpu_usage > Pct(alert_thresholds.cpu_warning)
                \/ memory_usage > Pct(alert_thresholds.memory_warning)
                \/ disk_usage > Pct(alert_thresholds.disk_warning)
        THEN "warning"
        ELSE IF \/ cpu_usage > Pct(alert_thresholds.cpu_critical)
                \/ memory_usage > Pct(alert_thresholds.memory_critical)
                \/ disk_usage > Pct(alert_thresholds.disk_critical)
        THEN "critical"
        ELSE IF Get(http_check, "status", "None") = "error"
        THEN "warning"
        ELSE "healthy"

\* The evaluator comparing disk_usage against the cpu warning threshold
assess_overall_health_DiskSlip(hd) ==
    LET ping_status == Get(Get(Get(hd, "checks", EmptyDict), "ping", EmptyDict), "status", "None")
        cpu_usage == Get(hd, "cpu_usage", 0)
        memory_usage == Get(hd, "memory_usage", 0)
        disk_usage == Get(hd, "disk_usage", 0)
        http_check == Get(hd, "http_check", EmptyDict)
    IN  IF ping_status = "down" THEN "critical"
        ELSE IF \/ cpu_usage > Pct(alert_thresholds.cpu_critical)
                \/ memory_usage > Pct(alert_thresholds.memory_critical)
                \/ disk_usage > Pct(alert_thresholds.disk_critical)
        THEN "critical"
        ELSE IF \/ cpu_usage > Pct(alert_thresholds.cpu_warning)
                \/ memory_usage > Pct(alert_thresholds.memory_warning)
                \/ disk_usage > Pct(alert_thresholds.cpu_warning)
        THEN "warning"
        ELSE IF Get(http_check, "status", "None") = "error"
        THEN "warning"
        ELSE "healthy"

\* assess_overall_health: the verdict of a bundle
assess_overall_health(hd) ==
    LET ping_status == Get(Get(Get(hd, "checks", EmptyDict), "ping", EmptyDict), "status", "None")
        cpu_usage == Get(hd, "cpu_usage", 0)
        memory_usage == Get(hd, "memory_usage", 0)
        disk_usage == Get(hd, "disk_usage", 0)
        http_check == Get(hd, "http_check", EmptyDict)
    IN  IF ping_status = "down" THEN "critical"
        ELSE IF \/ cpu_usage > Pct(alert_thresholds.cpu_critical)
                \/ memory_usage > Pct(alert_thresholds.memory_critical)
                \/ disk_usage > Pct(alert_thresholds.disk_critical)
        THEN "critical"
        ELSE IF \/ cpu_usage > Pct(alert_thresholds.cpu_warning)
                \/ memory_usage > Pct(alert_thresholds.memory_warning)
                \/ disk_usage > Pct(alert_thresholds.disk_warning)
        THEN "warning"
        ELSE IF Get(http_check, "status", "None") = "error"
        THEN "warning"
        ELSE "healthy"

-----------------------------------------------------------------------------
(* Probes: what ping and the metrics providers can hand to run_health_check *)

\* Everything the probes are seen to report, readings in hundredths of a percent:
\* each reading takes a value below, at, between and above its two thresholds.
AllProbes ==
    [ping |-> {"reply", "noreply", "raise"},
     cpu |-> {0, 1000, 8000, 8500, 9000, 9200},
     memory |-> {1000, 8500, 9000, 9600},
     disk |-> {1000, 8500, 9000, 9600},
     psutil_fails |-> {TRUE, FALSE},
     http |-> {"healthy", "unhealthy", "error"},
     dns |-> {"success", "failed"}]

\* Probes of the threshold runs: each reading below, between and above its thresholds
ThresholdProbes ==
    [ping |-> {"reply"},
     cpu |-> {1000, 8500, 9200},
     memory |-> {1000, 9000, 9600},
     disk |-> {1000, 9200, 9600},
     psutil_fails |-> {FALSE},
     http |-> {"healthy"},
     dns |-> {"success"}]

\* Probes of the dedup runs: a quiet host, and cpu readings that differ but read
\* alike to one decimal (92.00, 92.04) or read differently (95.00)
DedupProbes ==
    [ping |-> {"reply"},
     cpu |-> {1000, 9200, 9204, 9500},
     memory |-> {1000},
     disk |-> {1000},
     psutil_fails |-> {FALSE},
     http |-> {"healthy"},
     dns |-> {"success"}]

\* get_local_server_metrics: psutil may fail before any of the three readings,
\* between them, or after them; the readings taken so far stay in the dict,
\* next to the error.
get_local_server_metrics(P) ==
    LET full == {[cpu_usage |-> c, memory_usage |-> m, disk_usage |-> d] :
                    c \in P.cpu, m \in P.memory, d \in P.disk}
        failed == {[error |-> "psutil"]}
                  \cup {[cpu_usage |-> c, error |-> "psutil"] : c \in P.cpu}
                  \cup {[cpu_usage |-> c, memory_usage |-> m, error |-> "psutil"] :
                           c \in P.cpu, m \in P.memory}
                  \cup {f @@ [error |-> "psutil"] : f \in full}
    IN  (IF FALSE \in P.psutil_fails THEN full ELSE {})
        \cup (IF TRUE \in P.psutil_fails THEN failed ELSE {})

\* get_remote_server_metrics: port checks and DNS always, http_check for the
\* web, api and application server types; no cpu, memory or disk reading.
get_remote_server_metrics(s, P) ==
    LET http(h) == IF h = "error" THEN [status |-> "error", error |-> "RequestException"]
                   ELSE [status |-> h, status_code |-> IF h = "healthy" THEN 200 ELSE 500]
    IN  IF Servers[s].server_type \in {"web", "api", "application"}
        THEN {[port_checks |-> "closed", http_check |-> http(h), dns_resolution |-> r] :
                 h \in P.http, r \in P.dns}
        ELSE {[port_checks |-> "closed", dns_resolution |-> r] : r \in P.dns}

IsLocal(s) ==
    \/ Servers[s].hostname = "localhost"
    \/ Servers[s].ip_address \in {"127.0.0.1", "localhost"}

\* The bundle run_health_check returns for server s, given what ping and the
\* metrics provider produced.  An exception inside the try block leaves the
\* bundle without verdict from the evaluator: overall_status is 'unhealthy'.
run_health_check(s, ping, metrics) ==
    LET base == [server_id |-> s, hostname |-> Servers[s].hostname, checks |-> EmptyDict]
    IN  IF ping = "raise"
        THEN Update([base EXCEPT !.checks = [error |-> "ping"]], [overall_status |-> "unhealthy"])
        ELSE LET pinged == [base EXCEPT !.checks =
                                [ping |-> [status |-> IF ping = "reply" THEN "up" ELSE "down"]]]
                 merged == Update(pinged, metrics)
             IN  Update(merged, [overall_status |-> assess_overall_health(merged)])

\* All bundles run_health_check can return for server s under the probes P
Bundles(s, P) ==
    {run_health_check(s, p, m) :
        p \in P.ping,
        m \in IF IsLocal(s) THEN get_local_server_metrics(P) ELSE get_remote_server_metrics(s, P)}

-----------------------------------------------------------------------------
(* Threshold alert engine *)

\* kwargs.get('metric') and kwargs.get('value') when the caller passes none, and
\* a timestamp column the constructor call leaves unset
NULL == -1

\* f'{v:.1f}': v rounded to one decimal, as text.  The readings used have no
\* hundredths digit 5, so the rounding direction of a tie never matters.
Fmt1(v) ==
    LET tenths == (v + 5) \div 10
    IN  <<ToString(tenths \div 10), ".", ToString(tenths % 10)>>

Message(prefix, v) == <<prefix>> \o Fmt1(v) \o <<"%">>

FailureMessage(e) == <<"Health check failed: ", e>>

SetMin(S) == CHOOSE x \in S : \A y \in S : x <= y

\* The dedup query without its time filter
DedupMatches_NoWindow(tbl, server_id, message, t) ==
    {i \in DOMAIN tbl :
        /\ tbl[i].server_id = server_id
        /\ tbl[i].message = message
        /\ tbl[i].status = "active"}

\* The dedup query filtering on updated_at, which is unset on a new row
DedupMatches_UpdatedAt(tbl, server_id, message, t) ==
    {i \in DOMAIN tbl :
        /\ tbl[i].server_id = server_id
        /\ tbl[i].message = message
        /\ tbl[i].status = "active"
        /\ tbl[i].updated_at # NULL
        /\ tbl[i].updated_at >= t - DedupMinutes}

\* The dedup query without its message filter
DedupMatches_NoMessage(tbl, server_id, message, t) ==
    {i \in DOMAIN tbl :
        /\ tbl[i].server_id = server_id
        /\ tbl[i].status = "active"
        /\ tbl[i].created_at >= t - DedupMinutes}

\* The rows the dedup query of create_alert selects at time t
DedupMatches(tbl, server_id, message, t) ==
    {i \in DOMAIN tbl :
        /\ tbl[i].server_id = server_id
        /\ tbl[i].message = message
        /\ tbl[i].status = "active"
        /\ tbl[i].created_at >= t - DedupMinutes}

\* A new row whose occurrence count starts at 0
NewAlert_CountZero(server_id, severity, message, metric, value, t) ==
    [server_id |-> server_id, severity |-> severity, message |-> message,
     status |-> "active", metric |-> metric, value |-> value,
     count |-> 0, created_at |-> t, updated_at |-> NULL]

\* new_alert = Alert(...): the row create_alert adds when the lookup finds none
NewAlert(server_id, severity, message, metric, value, t) ==
    [server_id |-> server_id, severity |-> severity, message |-> message,
     status |-> "active", metric |-> metric, value |-> value,
     count |-> 1, created_at |-> t, updated_at |-> NULL]

\* create_alert with a lookup that does not see the row the call before it has
\* added: the lookup of a call that began before that call committed
create_alert_StaleLookup(tbl, server_id, severity, message, metric, value, t) ==
    LET seen == SubSeq(tbl, 1, Len(tbl) - 1)
        existing == DedupMatches(seen, server_id, message, t)
    IN  IF existing # {}
        THEN LET i == SetMin(existing)
             IN  [alerts |-> [tbl EXCEPT ![i].count = @ + 1, ![i].updated_at = t],
                  id |-> i, created |-> FALSE]
        ELSE [alerts |-> Append(tbl, NewAlert(server_id, severity, message, metric, value, t)),
              id |-> Len(tbl) + 1, created |-> TRUE]

\* create_alert with count -= 1 in place of count += 1
create_alert_Decrement(tbl, server_id, severity, message, metric, value, t) ==
    LET existing == DedupMatches(tbl, server_id, message, t)
    IN  IF existing # {}
        THEN LET i == SetMin(existing)
             IN  [alerts |-> [tbl EXCEPT ![i].count = @ - 1, ![i].updated_at = t],
                  id |-> i, created |-> FALSE]
        ELSE [alerts |-> Append(tbl, NewAlert(server_id, severity, message, metric, value, t)),
              id |-> Len(tbl) + 1, created |-> TRUE]

\* create_alert whose hit path also writes the severity and the value of the
\* call into the row it found
create_alert_Overwrites(tbl, server_id, severity, message, metric, value, t) ==
    LET existing == DedupMatches(tbl, server_id, message, t)
    IN  IF existing # {}
        THEN LET i == SetMin(existing)
             IN  [alerts |-> [tbl EXCEPT ![i].count = @ + 1, ![i].updated_at = t,
                                         ![i].severity = severity, ![i].value = value],
                  id |-> i, created |-> FALSE]
        ELSE [alerts |-> Append(tbl, NewAlert(server_id, severity, message, metric, value, t)),
              id |-> Len(tbl) + 1, created |-> TRUE]

\* create_alert at time t on table tbl: the table afterwards, the id of the row
\* returned, and whether that row was created by this call.  .first() has no
\* ORDER BY; the row of lowest id stands for it.
create_alert(tbl, server_id, severity, message, metric, value, t) ==
    LET existing == DedupMatches(tbl, server_id, message, t)
    IN  IF existing # {}
        THEN LET i == SetMin(existing)
             IN  [alerts |-> [tbl EXCEPT ![i].count = @ + 1, ![i].updated_at = t],
                  id |-> i, created |-> FALSE]
        ELSE [alerts |-> Append(tbl, NewAlert(server_id, severity, message, metric, value, t)),
              id |-> Len(tbl) + 1, created |-> TRUE]

\* The per-metric check with the warning test as a second if, not an elif
MetricAlerts_Both(hd, key, critical, warning, criticalText, warningText) ==
    LET usage == Get(hd, key, 0)
    IN  (IF usage > Pct(critical)
         THEN <<[severity |-> "critical", message |-> Message(criticalText, usage),
                 metric |-> key, value |-> usage]>>
         ELSE <<>>)
        \o (IF usage > Pct(warning)
            THEN <<[severity |-> "warning", message |-> Message(warningText, usage),
                    metric |-> key, value |-> usage]>>
            ELSE <<>>)

\* The per-metric check with >= in place of >
MetricAlerts_AtLeast(hd, key, critical, warning, criticalText, warningText) ==
    LET usage == Get(hd, key, 0)
    IN  IF usage >= Pct(critical)
        THEN <<[severity |-> "critical", message |-> Message(criticalText, usage),
                metric |-> key, value |-> usage]>>
        ELSE IF usage >= Pct(warning)
        THEN <<[severity |-> "warning", message |-> Message(warningText, usage),
                metric |-> key, value |-> usage]>>
        ELSE <<>>

\* The entries check_health_thresholds appends to alerts_to_create for one metric
MetricAlerts(hd, key, critical, warning, criticalText, warningText) ==
    LET usage == Get(hd, key, 0)
    IN  IF usage > Pct(critical)
        THEN <<[severity |-> "critical", message |-> Message(criticalText, usage),
                metric |-> key, value |-> usage]>>
        ELSE IF usage > Pct(warning)
        THEN <<[severity |-> "warning", message |-> Message(warningText, usage),
                metric |-> key, value |-> usage]>>
        ELSE <<>>

alerts_to_create(hd) ==
    MetricAlerts(hd, "cpu_usage", alert_thresholds.cpu_critical, alert_thresholds.cpu_warning,
                 "CPU usage critical: ", "CPU usage high: ")
    \o MetricAlerts(hd, "memory_usage", alert_thresholds.memory_critical, alert_thresholds.memory_warning,
                    "Memory usage critical: ", "Memory usage high: ")
    \o MetricAlerts(hd, "disk_usage", alert_thresholds.disk_critical, alert_thresholds.disk_warning,
                    "Disk usage critical: ", "Disk usage high: ")

\* One entry of the log of create_alert calls: the arguments, the time, the row
\* returned and whether it was created
CallRecord(server_id, a, t, r) ==
    [server_id |-> server_id, severity |-> a.severity, message |-> a.message,
     metric |-> a.metric, value |-> a.value, at |-> t, id |-> r.id, created |-> r.created]

\* The loop at the end of check_health_thresholds: create_alert for each entry, in order
RECURSIVE CreateAll(_, _, _, _, _)
CreateAll(tbl, server_id, todo, t, log) ==
    IF todo = <<>>
    THEN [alerts |-> tbl, calls |-> log]
    ELSE LET a == Head(todo)
             r == create_alert(tbl, server_id, a.severity, a.message, a.metric, a.value, t)
         IN  CreateAll(r.alerts, server_id, Tail(todo), t,
                       Append(log, CallRecord(server_id, a, t, r)))

\* An evaluation that, finding no reading over a threshold, resolves the
\* active alerts of the server
check_health_thresholds_Resolving(tbl, server_id, hd, t) ==
    IF alerts_to_create(hd) = <<>>
    THEN [alerts |-> [i \in DOMAIN tbl |->
                        IF tbl[i].server_id = server_id
                        THEN [tbl[i] EXCEPT !.status = "resolved"]
                        ELSE tbl[i]],
          calls |-> <<>>]
    ELSE CreateAll(tbl, server_id, alerts_to_create(hd), t, <<>>)

check_health_thresholds(tbl, server_id, hd, t) ==
    CreateAll(tbl, server_id, alerts_to_create(hd), t, <<>>)

RECURSIVE TotalCount(_)
TotalCount(tbl) == IF tbl = <<>> THEN 0 ELSE Head(tbl).count + TotalCount(Tail(tbl))

\* The step stays inside the bounds of the model
WithinBounds(tbl) == TotalCount(tbl) <= MaxOccurrences

-----------------------------------------------------------------------------
(* The subscriber dict of the broadcast hub and the iterator of a pass *)

\* Websocket connections accepted over a run
MaxConnections == 2

\* The client_id path parameter of /ws/monitoring/{client_id}
ClientIds == {"a", "b"}

\* What `del d[k]` leaves in the entry table of the dict
Dummy == [client_id |-> "", websocket |-> 0]

\* The live entries of the dict, its keys, len(d) and d[k]
Positions(d) == {i \in 1..Len(d) : d[i] # Dummy}

Keys(d) == {d[i].client_id : i \in Positions(d)}

Size(d) == Cardinality(Positions(d))

Items(d) == {<<d[i].client_id, d[i].websocket>> : i \in Positions(d)}

\* self.websocket_clients[client_id] = websocket: a key already there keeps its
\* entry (and the size of the dict), a new key is appended
add_websocket_client(d, client_id, websocket) ==
    LET e == [client_id |-> client_id, websocket |-> websocket]
    IN  IF client_id \in Keys(d)
        THEN [i \in 1..Len(d) |-> IF d[i].client_id = client_id THEN e ELSE d[i]]
        ELSE Append(d, e)

\* if client_id in self.websocket_clients: del self.websocket_clients[client_id]
remove_websocket_client(d, client_id) ==
    [i \in 1..Len(d) |-> IF d[i].client_id = client_id THEN Dummy ELSE d[i]]

\* iter(self.websocket_clients.items()): the position reached in the entry
\* table, len(d) when the iterator was made, and the items still expected
NewIterator(d) == [pos |-> 0, used |-> Size(d), len |-> Size(d)]

NoItem == [kind |-> "StopIteration", error |-> "", it |-> NewIterator(<<>>), item |-> Dummy]

\* next() on that iterator, as the for statement calls it before every pass of
\* its body: the size of the dict is compared first
IterNext(d, it) ==
    LET rest == {i \in Positions(d) : i > it.pos}
    IN  IF it.used # Size(d)
        THEN [NoItem EXCEPT !.kind = "RuntimeError",
                            !.error = "dictionary changed size during iteration"]
        ELSE IF rest = {}
        THEN NoItem
        ELSE IF it.len = 0
        THEN [NoItem EXCEPT !.kind = "RuntimeError",
                            !.error = "dictionary keys changed during iteration"]
        ELSE [NoItem EXCEPT !.kind = "item",
                            !.it = [it EXCEPT !.pos = SetMin(rest), !.len = @ - 1],
                            !.item = d[SetMin(rest)]]

\* The locals of broadcast_health_update between two calls
NoBroadcast ==
    [it |-> NewIterator(<<>>), client_id |-> "", websocket |-> 0,
     disconnected_clients |-> <<>>]

AfterSend_Forget(b, sent) == b

\* A send that raised is made again: the iterator is put back by one entry
AfterSend_Retry(b, sent) ==
    IF sent THEN b ELSE [b EXCEPT !.it.pos = @ - 1, !.it.len = @ + 1]

\* try: await websocket.send_text(...)  except Exception:
\*     disconnected_clients.append(client_id)
AfterSend(b, sent) ==
    IF sent THEN b ELSE [b EXCEPT !.disconnected_clients = Append(@, b.client_id)]

\* for client_id in disconnected_clients: self.remove_websocket_client(client_id)
RECURSIVE RemoveAll(_, _)
RemoveAll(d, ids) ==
    IF ids = <<>> THEN d
    ELSE RemoveAll(remove_websocket_client(d, Head(ids)), Tail(ids))

\* The record kept of the last pass, until the endpoint next changes the dict
\* after it (not state of the program)
NoPass ==
    [clients |-> {}, sent |-> <<>>, delivered |-> {}, failed |-> {},
     touched |-> {}, outcome |-> "none"]

\* the endpoint changes the registration of client_id
Touch(client_id) ==
    IF pass.outcome = "running" THEN [pass EXCEPT !.touched = @ \cup {client_id}]
    ELSE NoPass

\* the send to the handle of the loop body has completed
Sent(b, sent) ==
    IF sent THEN [pass EXCEPT !.delivered = @ \cup {b.websocket}]
    ELSE [pass EXCEPT !.failed = @ \cup {b.websocket}]

-----------------------------------------------------------------------------
(* One iteration of health_check_loop, step by step, and the on-demand check *)

\* No HealthCheck row
NoRow == [server_id |-> 0, status |-> ""]

\* health_check_loop between two ticks, in asyncio.sleep
NoTick == [at |-> "sleep", servers |-> <<>>, rest |-> <<>>, checked |-> <<>>, error |-> FALSE]

\* str(e) of the exceptions store_health_check and check_health_thresholds can
\* raise
Errors == {"database is locked", "server closed the connection unexpectedly"}

\* Minutes the clock is seen to advance by between two steps
ClockSteps == {5}

Init ==
    /\ now = 0
    /\ alerts = <<>>
    /\ pc = "idle"
    /\ cur = 0
    /\ health_data = EmptyDict
    /\ calls = <<>>
    /\ on_demand = EmptyDict
    /\ websocket_clients = <<>>
    /\ sockets = <<>>
    /\ bcast = NoBroadcast
    /\ pass = NoPass
    /\ events = {}
    /\ monitoring_active = FALSE
    /\ tasks = <<>>
    /\ starts = 0
    /\ tick = NoTick
    /\ server_status = [s \in ServerIds |-> "unknown"]
    /\ stored = NoRow
    /\ enabled = {}
    /\ running = 0
    /\ work = EmptyDict

ClockAdvances ==
    /\ \E d \in ClockSteps :
          /\ now + d <= MaxTime
          /\ now' = now + d
    /\ calls' = <<>>
    /\ UNCHANGED <<alerts, pc, cur, health_data, on_demand, hubVars, schedVars, workVars, tickVars, stored>>

\* health_data = await self.run_health_check(server)
RunHealthCheck(P) ==
    /\ pc = "idle"
    /\ \E s \in ServerIds :
          /\ cur' = s
          /\ health_data' \in Bundles(s, P)
    /\ pc' = "store"
    /\ calls' = <<>>
    /\ UNCHANGED <<now, alerts, on_demand, hubVars, schedVars, workVars, tickVars, stored>>

\* await self.store_health_check(server.id, health_data, db): a HealthCheck row
\* is added; neither the Alert table nor the Server row is touched
StoreHealthCheck ==
    /\ pc = "store"
    /\ pc' = "thresholds"
    /\ calls' = <<>>
    /\ UNCHANGED <<now, alerts, cur, health_data, on_demand, hubVars, schedVars, workVars, tickVars>>
    /\ stored' = [server_id |-> cur, status |-> health_data.overall_status]

\* await self.check_health_thresholds(server, health_data, db)
CheckHealthThresholds ==
    /\ pc = "thresholds"
    /\ LET r == check_health_thresholds(alerts, cur, health_data, now)
       IN  /\ WithinBounds(r.alerts)
           /\ alerts' = r.alerts
           /\ calls' = r.calls
    /\ pc' = "broadcast"
    /\ UNCHANGED <<now, cur, health_data, on_demand, hubVars, schedVars, workVars, tickVars, stored>>

\* await self.broadcast_health_update(server.id, health_data) with nobody
\* subscribed (if not self.websocket_clients: return), then the next server
BroadcastHealthUpdate ==
    /\ pc = "broadcast"
    /\ Size(websocket_clients) = 0
    /\ pc' = "idle"
    /\ cur' = 0
    /\ health_data' = EmptyDict
    /\ calls' = <<>>
    /\ UNCHANGED <<now, alerts, on_demand, hubVars, schedVars, workVars, tickVars>>
    /\ stored' = NoRow

\* except Exception as e: store_health_check or check_health_thresholds raised;
\* a critical alert is recorded and the loop goes to the next server
HealthCheckFailed ==
    /\ pc \in {"store", "thresholds"}
    /\ \E e \in Errors :
          LET a == [severity |-> "critical", message |-> FailureMessage(e),
                    metric |-> "None", value |-> NULL]
              r == create_alert(alerts, cur, a.severity, a.message, a.metric, a.value, now)
          IN  /\ WithinBounds(r.alerts)
              /\ alerts' = r.alerts
              /\ calls' = <<CallRecord(cur, a, now, r)>>
    /\ pc' = "idle"
    /\ cur' = 0
    /\ health_data' = EmptyDict
    /\ UNCHANGED <<now, on_demand, hubVars, schedVars, workVars, tickVars>>
    /\ stored' = NoRow

\* get_server_health of the API layer: a run_health_check outside the loops
OnDemandHealthCheck ==
    /\ \E s \in ServerIds : on_demand' \in Bundles(s, AllProbes)
    /\ UNCHANGED <<now, alerts, pc, cur, health_data, calls, hubVars, schedVars, workVars, tickVars, stored>>

\* The health loop with the dedup probes, under a running clock
Next ==
    \/ ClockAdvances
    \/ RunHealthCheck(DedupProbes)
    \/ StoreHealthCheck
    \/ CheckHealthThresholds
    \/ BroadcastHealthUpdate
    \/ HealthCheckFailed

Spec == Init /\ [][Next]_vars

\* The health loop with the threshold probes
NextThresholds ==
    \/ RunHealthCheck(ThresholdProbes)
    \/ StoreHealthCheck
    \/ CheckHealthThresholds
    \/ BroadcastHealthUpdate

SpecThresholds == Init /\ [][NextThresholds]_vars

\* Readings at a threshold, and one hundredth of a percent above it
BoundaryProbes ==
    [ping |-> {"reply"}, cpu |-> {8000, 8001, 9000, 9001}, memory |-> {8500, 9500},
     disk |-> {9000, 9500}, psutil_fails |-> {FALSE}, http |-> {"healthy"},
     dns |-> {"success"}]

\* The health loop with readings at the thresholds
NextBoundary ==
    \/ RunHealthCheck(BoundaryProbes)
    \/ StoreHealthCheck
    \/ CheckHealthThresholds
    \/ BroadcastHealthUpdate

SpecBoundary == Init /\ [][NextBoundary]_vars

\* The evaluator applied to every bundle the probes can produce
NextAssess == OnDemandHealthCheck

SpecAssess == Init /\ [][NextAssess]_vars

-----------------------------------------------------------------------------
(* The websocket endpoint and a broadcast pass, send by send *)

\* Readings of a quiet host
HubProbes ==
    [ping |-> {"reply"}, cpu |-> {1000}, memory |-> {1000}, disk |-> {1000},
     psutil_fails |-> {FALSE}, http |-> {"healthy"}, dns |-> {"success"}]

\* monitoring_websocket up to its receive loop: accept, then add_websocket_client
Connect ==
    /\ Len(sockets) < MaxConnections
    /\ \E client_id \in ClientIds :
          /\ sockets' = Append(sockets, [client_id |-> client_id, state |-> "open"])
          /\ websocket_clients' =
                add_websocket_client(websocket_clients, client_id, Len(sockets) + 1)
          /\ pass' = Touch(client_id)
    /\ UNCHANGED <<now, alerts, pc, cur, health_data, calls, on_demand, bcast, events, schedVars, workVars, tickVars, stored>>

\* The peer of a connection goes away: from here on a send to its handle raises
Drop ==
    /\ \E w \in 1..Len(sockets) :
          /\ sockets[w].state = "open"
          /\ sockets' = [sockets EXCEPT ![w].state = "lost"]
    /\ UNCHANGED <<now, alerts, pc, cur, health_data, calls, on_demand,
                   websocket_clients, bcast, pass, events, schedVars, workVars, tickVars, stored>>

\* monitoring_websocket from its receive loop on: receive_text raises, and
\* finally: monitor_service.remove_websocket_client(client_id)
Teardown ==
    /\ \E w \in 1..Len(sockets) :
          /\ sockets[w].state = "lost"
          /\ sockets' = [sockets EXCEPT ![w].state = "closed"]
          /\ websocket_clients' =
                remove_websocket_client(websocket_clients, sockets[w].client_id)
          /\ pass' = Touch(sockets[w].client_id)
    /\ UNCHANGED <<now, alerts, pc, cur, health_data, calls, on_demand, bcast, events, schedVars, workVars, tickVars, stored>>

\* broadcast_health_update with somebody subscribed, up to the first send
BroadcastBegin ==
    /\ pc = "broadcast"
    /\ Size(websocket_clients) > 0
    /\ LET n == IterNext(websocket_clients, NewIterator(websocket_clients))
       IN  /\ bcast' = [it |-> n.it, client_id |-> n.item.client_id,
                        websocket |-> n.item.websocket, disconnected_clients |-> <<>>]
           /\ pass' = [NoPass EXCEPT !.clients = Items(websocket_clients),
                                     !.sent = <<n.item.websocket>>,
                                     !.outcome = "running"]
    /\ events' = events \cup {[type |-> "health_update", server_id |-> cur]}
    /\ pc' = "sending"
    /\ calls' = <<>>
    /\ UNCHANGED <<now, alerts, cur, health_data, on_demand, websocket_clients, sockets, schedVars, workVars, tickVars, stored>>

\* The send in progress completes, or raises because the peer is gone
SendOk == sockets[bcast.websocket].state = "open"

\* ... and the for statement goes to the next subscriber
SendThenNext ==
    /\ pc = "sending"
    /\ LET b == AfterSend(bcast, SendOk)
           n == IterNext(websocket_clients, b.it)
       IN  /\ n.kind = "item"
           /\ bcast' = [b EXCEPT !.it = n.it, !.client_id = n.item.client_id,
                                 !.websocket = n.item.websocket]
           /\ pass' = [Sent(bcast, SendOk) EXCEPT !.sent = Append(@, n.item.websocket)]
    /\ calls' = <<>>
    /\ UNCHANGED <<now, alerts, pc, cur, health_data, on_demand, websocket_clients,
                   sockets, events, schedVars, workVars, tickVars, stored>>

\* ... and the for statement is exhausted: the subscribers whose send raised are
\* removed, the call returns and the loop goes to the next server
SendThenReturn ==
    /\ pc = "sending"
    /\ LET b == AfterSend(bcast, SendOk)
           n == IterNext(websocket_clients, b.it)
       IN  /\ n.kind = "StopIteration"
           /\ websocket_clients' = RemoveAll(websocket_clients, b.disconnected_clients)
    /\ pass' = [Sent(bcast, SendOk) EXCEPT !.outcome = "returned"]
    /\ bcast' = NoBroadcast
    /\ pc' = "idle"
    /\ cur' = 0
    /\ health_data' = EmptyDict
    /\ calls' = <<>>
    /\ UNCHANGED <<now, alerts, on_demand, sockets, events, schedVars, workVars, tickVars>>
    /\ stored' = NoRow

\* ... and the for statement raises RuntimeError: nothing in
\* broadcast_health_update catches it, so the except clause of the iteration
\* records it as a failed health check
SendThenRaise ==
    /\ pc = "sending"
    /\ LET b == AfterSend(bcast, SendOk)
           n == IterNext(websocket_clients, b.it)
           a == [severity |-> "critical", message |-> FailureMessage(n.error),
                 metric |-> "None", value |-> NULL]
           r == create_alert(alerts, cur, a.severity, a.message, a.metric, a.value, now)
       IN  /\ n.kind = "RuntimeError"
           /\ WithinBounds(r.alerts)
           /\ alerts' = r.alerts
           /\ calls' = <<CallRecord(cur, a, now, r)>>
    /\ pass' = [Sent(bcast, SendOk) EXCEPT !.outcome = "raised"]
    /\ bcast' = NoBroadcast
    /\ pc' = "idle"
    /\ cur' = 0
    /\ health_data' = EmptyDict
    /\ UNCHANGED <<now, on_demand, websocket_clients, sockets, events, schedVars, workVars, tickVars>>
    /\ stored' = NoRow

\* The health loop with subscribers coming and going
NextHub ==
    \/ Connect
    \/ Drop
    \/ Teardown
    \/ RunHealthCheck(HubProbes)
    \/ StoreHealthCheck
    \/ CheckHealthThresholds
    \/ BroadcastHealthUpdate
    \/ BroadcastBegin
    \/ SendThenNext
    \/ SendThenReturn
    \/ SendThenRaise

SpecHub == Init /\ [][NextHub]_vars

-----------------------------------------------------------------------------
(* The scheduler: start_monitoring and the life cycle of the four loops.   *)
(* Here a tick is its beginning and its end; the work of a health tick is  *)
(* the iteration modelled above.                                           *)

\* Calls of start_monitoring over a run
MaxStartCalls == 3

\* The coroutines start_monitoring makes tasks of, in the order it creates them
Loops ==
    <<"health_check_loop", "performance_monitoring_loop",
      "service_monitoring_loop", "network_monitoring_loop">>

\* self.check_intervals, in seconds
check_intervals ==
    [health_check |-> 60, performance |-> 300, service_check |-> 120,
     network_check |-> 180]

\* The entry of check_intervals each loop sleeps for at the end of a tick
interval_sleep ==
    [health_check_loop |-> check_intervals.health_check,
     performance_monitoring_loop |-> check_intervals.performance,
     service_monitoring_loop |-> check_intervals.service_check,
     network_monitoring_loop |-> check_intervals.network_check]

except_sleep_Minute ==
    [health_check_loop |-> 60, performance_monitoring_loop |-> 60,
     service_monitoring_loop |-> 60, network_monitoring_loop |-> 60]

\* The seconds each loop sleeps for in its outer except clause
except_sleep ==
    [health_check_loop |-> 60, performance_monitoring_loop |-> 300,
     service_monitoring_loop |-> 120, network_monitoring_loop |-> 180]

\* asyncio.create_task(self.<loop>()): the task has not run yet
NewTask(loop) == [loop |-> loop, at |-> "created", seconds |-> 0, error |-> FALSE]

SpawnLoops == [i \in 1..Len(Loops) |-> NewTask(Loops[i])]

start_monitoring_Unguarded(active, ts) ==
    [monitoring_active |-> TRUE, tasks |-> ts \o SpawnLoops]

\* start_monitoring: nothing when already active, else the flag and four tasks
start_monitoring(active, ts) ==
    IF active THEN [monitoring_active |-> active, tasks |-> ts]
    ELSE [monitoring_active |-> TRUE, tasks |-> ts \o SpawnLoops]

while_test_Forever(active) == "tick"

\* while self.monitoring_active: where a task that runs for the first time, or
\* that returns from its sleep, goes next
while_test(active) == IF active THEN "tick" ELSE "exited"

\* The tasks of a loop that have not returned
Instances(ts, loop) == {i \in 1..Len(ts) : ts[i].loop = loop /\ ts[i].at # "exited"}

StartMonitoring ==
    /\ starts < MaxStartCalls
    /\ starts' = starts + 1
    /\ LET r == start_monitoring(monitoring_active, tasks)
       IN  /\ monitoring_active' = r.monitoring_active
           /\ tasks' = r.tasks
    /\ UNCHANGED <<now, alerts, pc, cur, health_data, calls, on_demand, hubVars, tickVars, stored, workVars>>

\* Stop(): sets the inactive flag
StopMonitoring ==
    /\ monitoring_active
    /\ monitoring_active' = FALSE
    /\ UNCHANGED <<now, alerts, pc, cur, health_data, calls, on_demand, hubVars,
                   tasks, starts, tickVars, stored, workVars>>

\* A task runs for the first time, or its sleep is over: the while condition
\* is evaluated, and with it true the tick begins
TaskResumes ==
    /\ \E i \in 1..Len(tasks) :
          /\ tasks[i].at \in {"created", "sleep"}
          /\ tasks' = [tasks EXCEPT ![i].at = while_test(monitoring_active),
                                    ![i].seconds = 0]
    /\ UNCHANGED <<now, alerts, pc, cur, health_data, calls, on_demand, hubVars,
                   monitoring_active, starts, tickVars, stored, workVars>>

\* The body of the try statement completes:
\* await asyncio.sleep(self.check_intervals[...])
TickEnds ==
    /\ \E i \in 1..Len(tasks) :
          /\ tasks[i].at = "tick"
          /\ tasks' = [tasks EXCEPT ![i].at = "sleep",
                                    ![i].seconds = interval_sleep[tasks[i].loop],
                                    ![i].error = FALSE]
    /\ UNCHANGED <<now, alerts, pc, cur, health_data, calls, on_demand, hubVars,
                   monitoring_active, starts, tickVars, stored, workVars>>

\* A loop without its outer except clause: the exception ends the task
TickFails_Exits ==
    /\ \E i \in 1..Len(tasks) :
          /\ tasks[i].at = "tick"
          /\ tasks' = [tasks EXCEPT ![i].at = "exited", ![i].error = TRUE]
    /\ UNCHANGED <<now, alerts, pc, cur, health_data, calls, on_demand, hubVars,
                   monitoring_active, starts, tickVars, stored, workVars>>

\* The body of the try statement raises: the outer except clause logs and sleeps
TickFails ==
    /\ \E i \in 1..Len(tasks) :
          /\ tasks[i].at = "tick"
          /\ tasks' = [tasks EXCEPT ![i].at = "sleep",
                                    ![i].seconds = except_sleep[tasks[i].loop],
                                    ![i].error = TRUE]
    /\ UNCHANGED <<now, alerts, pc, cur, health_data, calls, on_demand, hubVars,
                   monitoring_active, starts, tickVars, stored, workVars>>

\* The engine started once, called again while it runs, and stopped for good
NextSched ==
    \/ StartMonitoring /\ (monitoring_active \/ tasks = <<>>)
    \/ StopMonitoring
    \/ TaskResumes
    \/ TickEnds
    \/ TickFails

SpecSched == Init /\ [][NextSched]_vars

\* A step of task i
TaskStep(i) ==
    /\ i <= Len(tasks)
    /\ (TaskResumes \/ TickEnds \/ TickFails)
    /\ tasks'[i] # tasks[i]

\* The event loop runs every task that is ready, and every sleep ends
SpecSchedFair == SpecSched /\ \A i \in 1..Len(Loops) : WF_vars(TaskStep(i))

-----------------------------------------------------------------------------
(* A tick of health_check_loop: the query, the for statement over its      *)
(* result, and the two except clauses                                      *)

\* Probes that answer, time out or raise, on a quiet host and on one whose CPU
\* is over the critical threshold
TickProbes ==
    [ping |-> {"reply", "noreply", "raise"}, cpu |-> {1000, 9200}, memory |-> {1000},
     disk |-> {1000}, psutil_fails |-> {FALSE}, http |-> {"healthy"},
     dns |-> {"success"}]

RECURSIVE Ascending(_)
Ascending(S) == IF S = {} THEN <<>> ELSE <<SetMin(S)>> \o Ascending(S \ {SetMin(S)})

\* What db.query(Server).filter(Server.monitoring_enabled == True).all() can
\* return: the servers enabled at the time, by id
QueryResults == {Ascending(S) : S \in SUBSET ServerIds}

\* The sleep is over: db = SessionLocal(); servers = db.query(...).all()
TickBegins ==
    /\ pc = "idle"
    /\ tick.at = "sleep"
    /\ \E servers \in QueryResults :
          tick' = [at |-> "for", servers |-> servers, rest |-> servers,
                   checked |-> <<>>, error |-> FALSE]
    /\ calls' = <<>>
    /\ UNCHANGED <<now, alerts, pc, cur, health_data, on_demand, hubVars, schedVars, workVars,
                   server_status, stored>>

\* ... or the query raises: the outer except clause logs and sleeps
QueryFails ==
    /\ pc = "idle"
    /\ tick.at = "sleep"
    /\ tick' = [NoTick EXCEPT !.error = TRUE]
    /\ calls' = <<>>
    /\ UNCHANGED <<now, alerts, pc, cur, health_data, on_demand, hubVars, schedVars, workVars,
                   server_status, stored>>

\* for server in servers: health_data = await self.run_health_check(server)
NextServer(P) ==
    /\ pc = "idle"
    /\ tick.at = "for"
    /\ tick.rest # <<>>
    /\ LET s == Head(tick.rest)
       IN  /\ cur' = s
           /\ health_data' \in Bundles(s, P)
           /\ tick' = [tick EXCEPT !.rest = Tail(@), !.checked = Append(@, s)]
    /\ pc' = "store"
    /\ calls' = <<>>
    /\ UNCHANGED <<now, alerts, on_demand, hubVars, schedVars, workVars, server_status, stored>>

\* The for statement is exhausted: db.close() and the sleep of the interval
ForExhausted ==
    /\ pc = "idle"
    /\ tick.at = "for"
    /\ tick.rest = <<>>
    /\ tick' = [tick EXCEPT !.at = "sleep"]
    /\ calls' = <<>>
    /\ UNCHANGED <<now, alerts, pc, cur, health_data, on_demand, hubVars, schedVars, workVars,
                   server_status, stored>>

\* except Exception as e: store_health_check or check_health_thresholds raised,
\* and the create_alert of the except clause raises in its turn (the session is
\* the one whose commit has just failed): the exception leaves the for
\* statement, the outer except clause logs and sleeps
ExceptClauseFails ==
    /\ pc \in {"store", "thresholds"}
    /\ tick.at = "for"
    /\ tick' = [tick EXCEPT !.at = "sleep", !.error = TRUE]
    /\ pc' = "idle"
    /\ cur' = 0
    /\ health_data' = EmptyDict
    /\ calls' = <<>>
    /\ stored' = NoRow
    /\ UNCHANGED <<now, alerts, on_demand, hubVars, schedVars, workVars, server_status>>

\* The health loop tick after tick, with nobody subscribed
NextTick ==
    \/ TickBegins
    \/ QueryFails
    \/ NextServer(TickProbes)
    \/ StoreHealthCheck
    \/ CheckHealthThresholds
    \/ BroadcastHealthUpdate
    \/ HealthCheckFailed
    \/ ExceptClauseFails
    \/ ForExhausted

SpecTick == Init /\ [][NextTick]_vars

-----------------------------------------------------------------------------
(* create_alert called from two tasks *)

\* Another task of health_check_loop reaches check_health_thresholds for a
\* server of its own tick while this one is between two steps of its
\* iteration: the coroutine awaits nothing that suspends it, so the event loop
\* runs all its create_alert calls before any other task
OtherTaskEvaluates(P) ==
    /\ \E s \in ServerIds :
          \E hd \in Bundles(s, P) :
              LET r == check_health_thresholds(alerts, s, hd, now)
              IN  /\ r.calls # <<>>
                  /\ WithinBounds(r.alerts)
                  /\ alerts' = r.alerts
                  /\ calls' = r.calls
    /\ UNCHANGED <<now, pc, cur, health_data, on_demand, hubVars, schedVars, workVars,
                   tickVars, stored>>

\* What the probes return in SpecCallers: every ping is answered, the CPU
\* reading is quiet or above the critical threshold
CallerProbes ==
    [ping |-> {"reply"}, cpu |-> {1000, 9200}, memory |-> {1000},
     disk |-> {1000}, psutil_fails |-> {FALSE}, http |-> {"healthy"},
     dns |-> {"success"}]

\* Two tasks of the health loop and the clock
NextCallers ==
    \/ ClockAdvances
    \/ RunHealthCheck(CallerProbes)
    \/ StoreHealthCheck
    \/ CheckHealthThresholds
    \/ BroadcastHealthUpdate
    \/ HealthCheckFailed
    \/ OtherTaskEvaluates(CallerProbes)

SpecCallers == Init /\ [][NextCallers]_vars

-----------------------------------------------------------------------------
(* The four loops target by target.  The tasks share one event loop: a task   *)
(* runs from one await that suspends it to the next, and no other coroutine  *)
(* runs in between.  ping3, psutil, requests, socket and the database        *)
(* session are blocking calls: they suspend nothing.                         *)

\* external_hosts of run_network_tests
external_hosts == <<"8.8.8.8", "cloudflare.com", "google.com">>

\* What the for statement of a tick iterates over: the rows the query for
\* monitoring_enabled returned, by id, or, in run_network_tests, the
\* positions of external_hosts
for_targets(loop, en) ==
    IF loop = "network_monitoring_loop"
    THEN [n \in 1..Len(external_hosts) |-> n]
    ELSE Ascending(en)

\* A check routine in which every call returns without suspending the task
check_suspends_Never(loop, target) == FALSE

\* Whether the check routine of the loop suspends the task: only
\* get_local_performance_metrics does, in await asyncio.sleep(0.001)
check_suspends(loop, target) ==
    loop = "performance_monitoring_loop" /\ IsLocal(target)

\* todo: the targets the for statement has still to visit; checking: the one
\* of the iteration in progress; zero: no target was enabled when the tick began
NoWork == [todo |-> <<>>, checking |-> 0, zero |-> FALSE]

WorkOf(i) == Get(work, i, NoWork)

\* register_server: db.add(Server(..., monitoring_enabled=True, ...))
RegisterServer ==
    /\ running = 0
    /\ \E s \in ServerIds \ enabled : enabled' = enabled \cup {s}
    /\ UNCHANGED <<now, alerts, pc, cur, health_data, calls, on_demand, hubVars,
                   schedVars, tickVars, stored, running, work>>

\* A task runs for the first time, or its sleep is over: the while test and,
\* with it true, the query (or, in network_monitoring_loop, the host list)
LoopResumes ==
    /\ running = 0
    /\ \E i \in 1..Len(tasks) :
          /\ tasks[i].at \in {"created", "sleep"}
          /\ LET at == while_test(monitoring_active)
             IN  /\ tasks' = [tasks EXCEPT ![i].at = at, ![i].seconds = 0]
                 /\ IF at = "tick"
                    THEN /\ work' = (i :> [todo |-> for_targets(tasks[i].loop, enabled),
                                           checking |-> 0, zero |-> enabled = {}]) @@ work
                         /\ running' = i
                    ELSE UNCHANGED <<running, work>>
    /\ UNCHANGED <<now, alerts, pc, cur, health_data, calls, on_demand, hubVars,
                   monitoring_active, starts, tickVars, stored, enabled>>

\* ... or the query raises: the outer except clause logs and sleeps
LoopFetchFails ==
    /\ running = 0
    /\ monitoring_active
    /\ \E i \in 1..Len(tasks) :
          /\ tasks[i].at \in {"created", "sleep"}
          /\ tasks[i].loop # "network_monitoring_loop"
          /\ tasks' = [tasks EXCEPT ![i].at = "sleep",
                                    ![i].seconds = except_sleep[tasks[i].loop],
                                    ![i].error = TRUE]
    /\ UNCHANGED <<now, alerts, pc, cur, health_data, calls, on_demand, hubVars,
                   monitoring_active, starts, tickVars, stored, workVars>>

\* The for statement takes its next target and calls the check routine
CheckBegins ==
    /\ \E i \in 1..Len(tasks) :
          /\ running = i
          /\ tasks[i].at = "tick"
          /\ WorkOf(i).todo # <<>>
          /\ LET target == Head(WorkOf(i).todo)
             IN  /\ tasks' = [tasks EXCEPT ![i].at = "check"]
                 /\ work' = [work EXCEPT ![i].todo = Tail(@), ![i].checking = target]
                 /\ running' = IF check_suspends(tasks[i].loop, target) THEN 0 ELSE i
    /\ UNCHANGED <<now, alerts, pc, cur, health_data, calls, on_demand, hubVars,
                   monitoring_active, starts, tickVars, stored, enabled>>

\* The check routine returns or raises, the result is stored or the failure
\* logged; in health_check_loop broadcast_health_update follows, and with a
\* subscriber registered the task is suspended in websocket.send_text
CheckEnds ==
    /\ \E i \in 1..Len(tasks) :
          /\ tasks[i].at = "check"
          /\ running = IF check_suspends(tasks[i].loop, WorkOf(i).checking) THEN 0 ELSE i
          /\ \/ /\ tasks' = [tasks EXCEPT ![i].at = "tick"]
                /\ work' = [work EXCEPT ![i].checking = 0]
                /\ running' = i
             \/ /\ tasks[i].loop = "health_check_loop"
                /\ tasks' = [tasks EXCEPT ![i].at = "send"]
                /\ running' = 0
                /\ work' = work
    /\ UNCHANGED <<now, alerts, pc, cur, health_data, calls, on_demand, hubVars,
                   monitoring_active, starts, tickVars, stored, enabled>>

\* The sends of the broadcast are over: the for statement goes on
SendEnds ==
    /\ running = 0
    /\ \E i \in 1..Len(tasks) :
          /\ tasks[i].at = "send"
          /\ tasks' = [tasks EXCEPT ![i].at = "tick"]
          /\ work' = [work EXCEPT ![i].checking = 0]
          /\ running' = i
    /\ UNCHANGED <<now, alerts, pc, cur, health_data, calls, on_demand, hubVars,
                   monitoring_active, starts, tickVars, stored, enabled>>

\* In health_check_loop the create_alert of the except clause raises in its
\* turn: the exception leaves the for statement, the outer except clause logs
\* and sleeps
CheckAbandonsTick ==
    /\ \E i \in 1..Len(tasks) :
          /\ running = i
          /\ tasks[i].at = "check"
          /\ tasks[i].loop = "health_check_loop"
          /\ tasks' = [tasks EXCEPT ![i].at = "sleep",
                                    ![i].seconds = except_sleep[tasks[i].loop],
                                    ![i].error = TRUE]
          /\ work' = [work EXCEPT ![i] = NoWork]
          /\ running' = 0
    /\ UNCHANGED <<now, alerts, pc, cur, health_data, calls, on_demand, hubVars,
                   monitoring_active, starts, tickVars, stored, enabled>>

\* A for statement that stops at the first target it reaches with the flag false
LoopSleeps_WhenStopped ==
    /\ \E i \in 1..Len(tasks) :
          /\ running = i
          /\ tasks[i].at = "tick"
          /\ WorkOf(i).todo = <<>> \/ ~monitoring_active
          /\ tasks' = [tasks EXCEPT ![i].at = "sleep",
                                    ![i].seconds = interval_sleep[tasks[i].loop],
                                    ![i].error = FALSE]
          /\ work' = [work EXCEPT ![i] = NoWork]
          /\ running' = 0
    /\ UNCHANGED <<now, alerts, pc, cur, health_data, calls, on_demand, hubVars,
                   monitoring_active, starts, tickVars, stored, enabled>>

\* The for statement is exhausted: await asyncio.sleep(self.check_intervals[...])
LoopSleeps ==
    /\ \E i \in 1..Len(tasks) :
          /\ running = i
          /\ tasks[i].at = "tick"
          /\ WorkOf(i).todo = <<>>
          /\ tasks' = [tasks EXCEPT ![i].at = "sleep",
                                    ![i].seconds = interval_sleep[tasks[i].loop],
                                    ![i].error = FALSE]
          /\ work' = [work EXCEPT ![i] = NoWork]
          /\ running' = 0
    /\ UNCHANGED <<now, alerts, pc, cur, health_data, calls, on_demand, hubVars,
                   monitoring_active, starts, tickVars, stored, enabled>>

\* The engine started once and stopped for good, servers being registered
\* meanwhile; start_monitoring and Stop() run between two tasks
NextWork ==
    \/ StartMonitoring /\ running = 0 /\ (monitoring_active \/ tasks = <<>>)
    \/ StopMonitoring /\ running = 0
    \/ RegisterServer
    \/ LoopResumes
    \/ LoopFetchFails
    \/ CheckBegins
    \/ CheckEnds
    \/ SendEnds
    \/ CheckAbandonsTick
    \/ LoopSleeps

SpecWork == Init /\ [][NextWork]_vars

\* Only the tasks of these loops take the step
Moves(loops) ==
    \A i \in 1..Len(tasks) : tasks[i].loop \notin loops => tasks'[i] = tasks[i]

\* The loops whose ticks the restarted engine is followed through
Followed == {"health_check_loop", "performance_monitoring_loop"}

\* The engine stopped and started again: start_monitoring finds the flag
\* false and creates four more tasks, whatever the tasks of the earlier
\* start are doing
NextRestart ==
    \/ StartMonitoring /\ running = 0
    \/ StopMonitoring /\ running = 0
    \/ RegisterServer
    \/ LoopResumes /\ Moves(Followed)
    \/ CheckBegins
    \/ CheckEnds
    \/ SendEnds
    \/ LoopSleeps

SpecRestart == Init /\ [][NextRestart]_vars

-----------------------------------------------------------------------------
(* Properties of the dedup lookup, checked under Spec *)

SamePair(row, c) == row.server_id = c.server_id /\ row.message = c.message

\* Ids of the rows of tbl that carry the (target, message) pair of call c
PairRows(tbl, c) == {i \in DOMAIN tbl : SamePair(tbl[i], c)}

\* Row i is active and was created within the 10 minutes before t
CreatedInWindow(tbl, i, t) == tbl[i].status = "active" /\ t - tbl[i].created_at <= 10

\* Row i is active and was created or updated within the 10 minutes before t
TouchedInWindow(tbl, i, t) ==
    /\ tbl[i].status = "active"
    /\ \/ t - tbl[i].created_at <= 10
       \/ tbl[i].updated_at # NULL /\ t - tbl[i].updated_at <= 10

\* What one create_alert call c did to the rows of its pair, from alerts to alerts'
RepeatMerged(c) ==
    \E i \in PairRows(alerts, c) :
        /\ CreatedInWindow(alerts, i, c.at)
        /\ PairRows(alerts', c) = PairRows(alerts, c)
        /\ alerts'[i].count = alerts[i].count + 1
        /\ \A j \in PairRows(alerts, c) \ {i} : alerts'[j] = alerts[j]

FreshRow(c) ==
    \E n \in DOMAIN alerts' \ DOMAIN alerts :
        /\ PairRows(alerts', c) = PairRows(alerts, c) \cup {n}
        /\ alerts'[n].count = 1
        /\ \A j \in PairRows(alerts, c) : alerts'[j] = alerts[j]

\* C1: a violation submitted while a row of its (target, message) pair is inside
\* the 10-minute window adds no row and raises that row's count by one (twice
\* within the window: one row, count 2); submitted after the window has expired
\* it adds a second row with count 1 and leaves the first row as it was.
C1_DedupIdempotence ==
    [][\A k \in DOMAIN calls' :
          LET c == calls'[k]
          IN  IF \E i \in PairRows(alerts, c) : CreatedInWindow(alerts, i, c.at)
              THEN RepeatMerged(c)
              ELSE FreshRow(c)]_vars

\* Twice inside the window, a third time after it: counts 2 and 1
C1_Witness ==
    \E i, j \in DOMAIN alerts :
        /\ i < j
        /\ alerts[i].server_id = alerts[j].server_id
        /\ alerts[i].message = alerts[j].message
        /\ alerts[i].count = 2
        /\ alerts[j].count = 1
        /\ alerts[j].created_at - alerts[i].created_at > 10

C3_MatchesCreatedOrUpdated ==
    \A k \in DOMAIN calls :
        LET c == calls[k]
        IN  c.created =>
                ~\E i \in PairRows(alerts, c) \ {c.id} : TouchedInWindow(alerts, i, c.at)

\* C4: the row a create_alert call creates or updates carries the target, the
\* message and the metric of that call, and the calls of one evaluation touch
\* different rows; so calls that differ in any of the three never share a row.
C4_DistinctViolationsApart ==
    /\ \A k \in DOMAIN calls :
          LET c == calls[k]
          IN  /\ c.id \in DOMAIN alerts
              /\ alerts[c.id].server_id = c.server_id
              /\ alerts[c.id].message = c.message
              /\ alerts[c.id].metric = c.metric
    /\ \A k, l \in DOMAIN calls : k # l => calls[k].id # calls[l].id

\* A cpu reading of 92.00% and one of 95.00% inside the same window: two rows
C4_Witness ==
    \E i, j \in DOMAIN alerts :
        /\ alerts[i].server_id = alerts[j].server_id
        /\ alerts[i].metric = "cpu_usage" /\ alerts[i].value = 9200
        /\ alerts[j].metric = "cpu_usage" /\ alerts[j].value = 9500
        /\ alerts[i].severity = "critical" /\ alerts[j].severity = "critical"
        /\ CreatedInWindow(alerts, i, now) /\ CreatedInWindow(alerts, j, now)
        /\ calls # <<>> /\ calls[1].id = j /\ calls[1].created

\* C5: no step lowers the count of an alert row or moves its updated_at back,
\* and no step removes a row.
C5_Monotone ==
    [][\A i \in DOMAIN alerts :
          /\ i \in DOMAIN alerts'
          /\ alerts'[i].count >= alerts[i].count
          /\ alerts[i].updated_at # NULL =>
                (alerts'[i].updated_at # NULL /\ alerts'[i].updated_at >= alerts[i].updated_at)]_vars

\* A row merged twice, at different times
C5_Witness ==
    \E i \in DOMAIN alerts :
        /\ alerts[i].count = 3
        /\ alerts[i].updated_at > alerts[i].created_at + 5

-----------------------------------------------------------------------------
(* Properties of the threshold evaluation, checked under SpecThresholds *)

TrackedMetrics == {"cpu_usage", "memory_usage", "disk_usage"}

CriticalLimit(k) ==
    IF k = "cpu_usage" THEN alert_thresholds.cpu_critical
    ELSE IF k = "memory_usage" THEN alert_thresholds.memory_critical
    ELSE alert_thresholds.disk_critical

WarningLimit(k) ==
    IF k = "cpu_usage" THEN alert_thresholds.cpu_warning
    ELSE IF k = "memory_usage" THEN alert_thresholds.memory_warning
    ELSE alert_thresholds.disk_warning

Measured(hd, k) == k \in DOMAIN hd

Above(hd, k, limit) == Measured(hd, k) /\ hd[k] > 100 * limit

\* How many of the logged calls are for metric k with the given severity
Raised(k, severity) ==
    Cardinality({n \in DOMAIN calls : calls[n].metric = k /\ calls[n].severity = severity})

\* C6: one evaluation raises, per tracked metric, the critical alert alone when
\* the reading is above the critical threshold, the warning alert alone when it
\* is above the warning threshold but not the critical one, and nothing otherwise.
C6_OneAlertPerMetric ==
    pc = "broadcast" =>
        \A k \in TrackedMetrics :
            /\ Raised(k, "critical") =
                  (IF Above(health_data, k, CriticalLimit(k)) THEN 1 ELSE 0)
            /\ Raised(k, "warning") =
                  (IF Above(health_data, k, WarningLimit(k)) /\ ~Above(health_data, k, CriticalLimit(k))
                   THEN 1 ELSE 0)

\* One evaluation with cpu above critical, memory between the two, disk below both
C6_Witness ==
    /\ pc = "broadcast"
    /\ Above(health_data, "cpu_usage", CriticalLimit("cpu_usage"))
    /\ Above(health_data, "memory_usage", WarningLimit("memory_usage"))
    /\ ~Above(health_data, "memory_usage", CriticalLimit("memory_usage"))
    /\ ~Above(health_data, "disk_usage", WarningLimit("disk_usage"))
    /\ Len(calls) = 2

-----------------------------------------------------------------------------
(* Properties of the evaluator, checked under SpecAssess *)

\* run_health_check reached the evaluator: nothing raised inside its try block
Assessed(hd) == hd # EmptyDict /\ "error" \notin DOMAIN hd.checks

PingDown(hd) == "ping" \in DOMAIN hd.checks /\ hd.checks.ping.status = "down"

HttpError(hd) == "http_check" \in DOMAIN hd /\ hd.http_check.status = "error"

\* C7: a bundle whose ping failed is critical, whatever else it holds.
C7_UnreachableIsCritical ==
    (Assessed(on_demand) /\ PingDown(on_demand)) => on_demand.overall_status = "critical"

\* Unreachable with cpu at 10%
C7_Witness ==
    /\ Assessed(on_demand) /\ PingDown(on_demand)
    /\ Measured(on_demand, "cpu_usage") /\ on_demand.cpu_usage = 1000
    /\ Measured(on_demand, "memory_usage") /\ on_demand.memory_usage = 1000
    /\ Measured(on_demand, "disk_usage") /\ on_demand.disk_usage = 1000
    /\ on_demand.overall_status = "critical"

\* cpu, memory and disk are all measured and below each of their thresholds
AllBelowThresholds(hd) ==
    \A k \in TrackedMetrics :
        Measured(hd, k) /\ hd[k] < 100 * WarningLimit(k) /\ hd[k] < 100 * CriticalLimit(k)

\* C8 as stated: every bundle with cpu, memory and disk below every threshold
\* is healthy.
C8_BelowThresholdsIsHealthy ==
    (Assessed(on_demand) /\ AllBelowThresholds(on_demand)) => on_demand.overall_status = "healthy"

\* C8 amended: such a bundle is healthy provided its ping did not fail and its
\* HTTP sub-check reports no error.
C8_BelowThresholdsAndReachableIsHealthy ==
    (/\ Assessed(on_demand)
     /\ AllBelowThresholds(on_demand)
     /\ ~PingDown(on_demand)
     /\ ~HttpError(on_demand))
    => on_demand.overall_status = "healthy"

C8_Witness ==
    /\ Assessed(on_demand) /\ AllBelowThresholds(on_demand)
    /\ ~PingDown(on_demand) /\ ~HttpError(on_demand)
    /\ on_demand.disk_usage = 8500
    /\ on_demand.overall_status = "healthy"

\* The rule list of the evaluator, in precedence order
ReferenceRules(hd) ==
    <<[applies |-> PingDown(hd), verdict |-> "critical"],
      [applies |-> \E k \in TrackedMetrics : Above(hd, k, CriticalLimit(k)), verdict |-> "critical"],
      [applies |-> \E k \in TrackedMetrics : Above(hd, k, WarningLimit(k)), verdict |-> "warning"],
      [applies |-> HttpError(hd), verdict |-> "warning"],
      [applies |-> TRUE, verdict |-> "healthy"]>>

FirstMatch(rules) ==
    rules[SetMin({n \in DOMAIN rules : rules[n].applies})].verdict

\* C9: the verdict of every bundle is that of the first rule of the list that
\* applies to it.
C9_FirstMatchWins ==
    Assessed(on_demand) => on_demand.overall_status = FirstMatch(ReferenceRules(on_demand))

\* A reading above its warning and below its critical threshold next to one
\* above its critical threshold: rule 2 decides before rule 3
C9_Witness ==
    /\ Assessed(on_demand) /\ ~PingDown(on_demand)
    /\ Above(on_demand, "memory_usage", WarningLimit("memory_usage"))
    /\ ~Above(on_demand, "memory_usage", CriticalLimit("memory_usage"))
    /\ Above(on_demand, "cpu_usage", CriticalLimit("cpu_usage"))
    /\ on_demand.overall_status = "critical"

\* C10: a bundle in which none of cpu, memory and disk was measured does not
\* come out healthy on the strength of the missing readings.
C10_MissingIsNotZero ==
    (Assessed(on_demand) /\ \A k \in TrackedMetrics : ~Measured(on_demand, k))
    => on_demand.overall_status # "healthy"

-----------------------------------------------------------------------------
(* Properties of the broadcast hub, checked under SpecHub *)

\* The subscribers a pass started from whose registration the endpoint did not
\* change while the pass ran
Throughout == {e \in pass.clients : e[1] \notin pass.touched}

\* C11: when a broadcast pass returns, every subscriber that was registered
\* throughout it has been sent the event; the ones whose send raised are no
\* longer in the dict, and each of the others has received the event and is
\* still registered with the same handle.
C11_FailedSendIsIsolated ==
    pass.outcome = "returned" =>
        \A e \in Throughout :
            /\ e[2] \in pass.failed \cup pass.delivered
            /\ e[2] \in pass.failed => e[1] \notin Keys(websocket_clients)
            /\ e[2] \notin pass.failed =>
                  /\ e[2] \in pass.delivered
                  /\ e \in Items(websocket_clients)

\* a pass over two subscribers has returned: one send raised, the other
\* subscriber received the event and is the only one left
C11_Witness ==
    /\ pass.outcome = "returned"
    /\ Cardinality(pass.clients) = 2
    /\ Throughout = pass.clients
    /\ Cardinality(pass.failed) = 1
    /\ Cardinality(pass.delivered) = 1
    /\ Items(websocket_clients) = {e \in pass.clients : e[2] \in pass.delivered}

\* C12: a change of the subscriber dict made by the endpoint while a pass is
\* suspended at a send never aborts the pass: every pass that ends has returned
\* without an exception and has attempted every subscriber that was
\* registered throughout it.
C12_MutationsAreSynchronized ==
    pass.outcome \in {"returned", "raised"} =>
        /\ pass.outcome = "returned"
        /\ \A e \in Throughout : e[2] \in pass.failed \cup pass.delivered

-----------------------------------------------------------------------------
(* Properties of the scheduler, checked under SpecSched *)

\* C13: a call of start_monitoring on an engine that is active changes no
\* state (the flag stays set, no task is created, no task moves), and after it
\* there is exactly one running instance of each of the four loops.
C13_StartIsIdempotent ==
    [][(monitoring_active /\ starts' = starts + 1) =>
          /\ monitoring_active'
          /\ tasks' = tasks
          /\ UNCHANGED <<now, alerts, pc, cur, health_data, calls, on_demand, hubVars,
                         tickVars, stored>>
          /\ \A i \in 1..Len(Loops) :
                Cardinality(Instances(tasks', Loops[i])) = 1]_vars

\* start_monitoring has been called three times, twice of them on the active
\* engine, and each loop has one instance
C13_Witness ==
    /\ starts = 3
    /\ monitoring_active
    /\ \A i \in 1..Len(Loops) : Cardinality(Instances(tasks, Loops[i])) = 1
    /\ \E i \in 1..Len(tasks) : tasks[i].at = "tick"

AllExited == \A i \in 1..Len(tasks) : tasks[i].at = "exited"

\* What a step may do to task i once the flag is cleared: clearing the flag
\* moves no task; no tick begins while the flag is clear; a task inside a tick
\* finishes it and goes to its sleep; a task whose sleep ends while the flag is
\* clear returns
StopObserved(i) ==
    /\ (monitoring_active /\ ~monitoring_active') => tasks'[i] = tasks[i]
    /\ (tasks[i].at # "tick" /\ tasks'[i].at = "tick") => monitoring_active
    /\ (~monitoring_active /\ tasks[i].at = "tick") => tasks'[i].at \in {"tick", "sleep"}
    /\ (~monitoring_active /\ tasks[i].at \in {"created", "sleep"}) =>
          tasks'[i].at \in {tasks[i].at, "exited"}
    /\ tasks[i].at = "exited" => tasks'[i].at = "exited"

\* C14: once the flag is cleared no loop begins a new tick: each loop finishes
\* the tick it is in, sleeps once and returns when that sleep ends (not at the
\* moment the flag is cleared); and if the flag stays clear, every loop has
\* eventually returned.
C14_StopIsObserved ==
    /\ [][\A i \in 1..Len(tasks) : StopObserved(i)]_vars
    /\ (<>[]~monitoring_active) => <>[]AllExited

\* the flag is clear, one loop has returned and another is still in the sleep
\* that followed the tick it was in, as the flag was cleared
C14_Witness ==
    /\ ~monitoring_active
    /\ \E i \in 1..Len(tasks) : tasks[i].at = "exited"
    /\ \E i \in 1..Len(tasks) : tasks[i].at = "sleep"
    /\ \E i \in 1..Len(tasks) : tasks[i].at = "tick"

\* C17: a tick that fails at loop level puts its loop to sleep for that loop's
\* own interval (60, 300, 120 and 180 seconds), the task does not return
\* because of the failure, and when the sleep ends on an active engine the
\* loop begins a new tick.
C17_LoopFailureBacksOff ==
    [][\A i \in 1..Len(tasks) :
          /\ (tasks[i].at = "tick" /\ tasks'[i].at # "tick" /\ tasks'[i].error) =>
                /\ tasks'[i].at = "sleep"
                /\ tasks'[i].seconds = interval_sleep[tasks[i].loop]
          /\ (monitoring_active /\ tasks[i].at = "sleep" /\ tasks[i].error
                /\ tasks'[i].at # "sleep") => tasks'[i].at = "tick"]_vars

\* the performance loop sleeps 300 seconds after a failed tick while the
\* service loop, back from such a sleep, is in its next tick
C17_Witness ==
    /\ monitoring_active
    /\ \E i \in 1..Len(tasks) :
          /\ tasks[i].loop = "performance_monitoring_loop"
          /\ tasks[i].at = "sleep" /\ tasks[i].error /\ tasks[i].seconds = 300
    /\ \E i \in 1..Len(tasks) :
          /\ tasks[i].loop = "service_monitoring_loop"
          /\ tasks[i].at = "tick" /\ tasks[i].error

-----------------------------------------------------------------------------
(* Properties of the health tick, checked under SpecTick *)

\* C15: when a tick of the health loop is over, run_health_check has been
\* called exactly once for each server the query of the tick returned,
\* whatever failed while one of them was processed (the store, the threshold
\* evaluation, or the recording of that failure).
C15_EveryTargetChecked == tick.at = "sleep" => tick.checked = tick.servers

\* The health check of the bundle failed: a probe raised, or the ping timed out
ProbeFailed(hd) ==
    \/ "error" \in DOMAIN hd.checks
    \/ ("ping" \in DOMAIN hd.checks /\ hd.checks.ping.status = "down")

\* C16: when the health check of a server has failed, then by the time the
\* iteration has stored the bundle and evaluated the thresholds, create_alert
\* has been called with severity critical for that server.
C16_ProbeFailureIsAlerted ==
    (pc = "broadcast" /\ ProbeFailed(health_data)) =>
        \E k \in 1..Len(calls) :
            calls[k].server_id = cur /\ calls[k].severity = "critical"

\* C18: when store_health_check raises for a server, the Alert table after the
\* iteration is the one the threshold evaluation of the bundle gives (no alert
\* is created because of the failed write), and the for statement goes on
\* with the servers that remain.
C18_WriteFailureIsDropped ==
    [][(pc = "store" /\ pc' = "idle") =>
          /\ alerts' = check_health_thresholds(alerts, cur, health_data, now).alerts
          /\ tick'.at = "for"
          /\ tick'.rest = tick.rest]_vars

\* C20: once the health loop has stored the check of a server, Server.status
\* of that server is the verdict of the bundle just computed.
C20_VerdictWrittenBack ==
    stored # NoRow => server_status[stored.server_id] = stored.status

-----------------------------------------------------------------------------
(* The alert events of the hub, checked under SpecHub *)

\* The event the hub is to fan out for a create_alert call
AlertEvent(call) ==
    [type |-> IF call.created THEN "alert_created" ELSE "alert_updated",
     server_id |-> call.server_id]

\* C19: for every create_alert call that created a row an alert_created event,
\* and for every call that updated one an alert_updated event, has been handed
\* to the hub for the subscribers.
C19_AlertsAreBroadcast ==
    \A k \in 1..Len(calls) : AlertEvent(calls[k]) \in events

-----------------------------------------------------------------------------
(* Readings equal to a threshold, checked under SpecBoundary *)

\* The reading of metric k is exactly the limit
At(hd, k, limit) == Measured(hd, k) /\ hd[k] = Pct(limit)

\* C30: a reading equal to its critical threshold raises no critical alert and
\* does not make the verdict critical; a reading equal to its warning
\* threshold raises no alert and does not make the verdict warning.  Both the
\* evaluator and the alert engine compare with >.
C30_ThresholdsAreStrict ==
    pc = "broadcast" =>
        /\ \A k \in TrackedMetrics :
              /\ At(health_data, k, CriticalLimit(k)) => Raised(k, "critical") = 0
              /\ At(health_data, k, WarningLimit(k)) =>
                    (Raised(k, "warning") = 0 /\ Raised(k, "critical") = 0)
        /\ (\A k \in TrackedMetrics : ~Above(health_data, k, CriticalLimit(k))) =>
              health_data.overall_status # "critical"
        /\ (\A k \in TrackedMetrics : ~Above(health_data, k, WarningLimit(k))) =>
              health_data.overall_status = "healthy"

\* cpu at 80%, memory at 85% and disk at 90%, each its warning threshold:
\* verdict healthy, no alert
C30_Witness ==
    /\ pc = "broadcast"
    /\ \A k \in TrackedMetrics : At(health_data, k, WarningLimit(k))
    /\ health_data.overall_status = "healthy"
    /\ calls = <<>>

-----------------------------------------------------------------------------
(* Properties of the loops target by target, checked under SpecWork *)

InTick(i) == tasks[i].at \in {"tick", "check", "send"}

\* C21: a tick that begins with no target enabled is a no-op: its for
\* statement has nothing to visit and no check runs in it, whichever of the
\* four loops it is a tick of.
C21_EmptyTickIsNoOp ==
    \A i \in 1..Len(tasks) :
        (InTick(i) /\ WorkOf(i).zero) =>
            /\ WorkOf(i).todo = <<>>
            /\ tasks[i].at = "tick"

\* C22: two tasks of one loop are never inside the check routine for the same
\* target at the same time, however the loops, start_monitoring and Stop()
\* interleave.
C22_ChecksDoNotOverlap ==
    \A i, j \in 1..Len(tasks) :
        (/\ i # j
         /\ tasks[i].loop = tasks[j].loop
         /\ tasks[i].at = "check"
         /\ tasks[j].at = "check")
        => WorkOf(i).checking # WorkOf(j).checking

\* What a step may do to task i and its for statement
RunsToTheEnd(i) ==
    /\ (monitoring_active /\ ~monitoring_active') =>
          (tasks'[i] = tasks[i] /\ WorkOf(i)' = WorkOf(i))
    /\ (~InTick(i) /\ InTick(i)') => monitoring_active
    /\ InTick(i) =>
          /\ tasks'[i].at # "exited"
          /\ (tasks'[i].at = "sleep" /\ ~tasks'[i].error) =>
                (tasks[i].at = "tick" /\ WorkOf(i).todo = <<>>)
          /\ (InTick(i)' /\ WorkOf(i)'.todo # WorkOf(i).todo) =>
                /\ WorkOf(i).todo # <<>>
                /\ WorkOf(i)'.todo = Tail(WorkOf(i).todo)
                /\ WorkOf(i)'.checking = Head(WorkOf(i).todo)
                /\ tasks'[i].at = "check"

\* C29: clearing the flag moves no task and takes no target off a for
\* statement; a tick in progress, whatever the flag, goes to its interval
\* sleep only once the check routine has been called for every target that
\* was left, in their order; what the cleared flag prevents is the start of a
\* tick.
C29_StopLetsTicksFinish ==
    [][\A i \in 1..Len(tasks) : RunsToTheEnd(i)]_vars

\* the engine was stopped while the health task was suspended in the
\* broadcast for server 1: the task is now inside the check of server 2
C29_Witness ==
    /\ ~monitoring_active
    /\ \E i \in 1..Len(tasks) :
          /\ tasks[i].loop = "health_check_loop"
          /\ tasks[i].at = "check"
          /\ WorkOf(i).checking = 2

-----------------------------------------------------------------------------
(* Properties of the scheduler under fair scheduling, checked under SpecSchedFair *)

\* A task returns only from its while test with the flag false, and a tick
\* that fails moves no other task
KeepsRunning(i) ==
    /\ (tasks[i].at # "exited" /\ tasks'[i].at = "exited") =>
          (~monitoring_active /\ tasks[i].at \in {"created", "sleep"})
    /\ (tasks[i].at = "tick" /\ tasks'[i].at = "sleep" /\ tasks'[i].error) =>
          \A j \in 1..Len(tasks) : j # i => tasks'[j] = tasks[j]

\* C23: while the engine is active no loop task returns, whatever fails in its
\* ticks or in those of the other loops, and if the engine stays active each
\* of the four loops is inside a tick infinitely often and asleep between two
\* ticks infinitely often.
C23_LoopsRunForever ==
    /\ [][\A i \in 1..Len(tasks) : KeepsRunning(i)]_vars
    /\ (<>[]monitoring_active) =>
          \A i \in 1..Len(Loops) :
              /\ []<>(i <= Len(tasks) /\ tasks[i].at = "tick")
              /\ []<>(i <= Len(tasks) /\ tasks[i].at = "sleep")

\* The health loop is in a new tick after a failed one, the three other loops
\* being asleep after a failed tick each
C23_Witness ==
    /\ monitoring_active
    /\ Len(tasks) = Len(Loops)
    /\ tasks[1].at = "tick" /\ tasks[1].error
    /\ \A i \in 2..Len(tasks) : tasks[i].at = "sleep" /\ tasks[i].error

-----------------------------------------------------------------------------
(* Properties of one broadcast pass, checked under SpecHub *)

\* How many sends of the pass were to handle w
Attempts(w) == Cardinality({k \in DOMAIN pass.sent : pass.sent[k] = w})

\* C24: within one broadcast pass no handle is sent the event twice, a send
\* either delivers or fails and a failed one is not made again; when the pass
\* has returned every subscriber registered throughout it has had exactly one
\* send, and a pass that has ended keeps nothing to send later.
C24_AtMostOnceDelivery ==
    /\ \A w \in 1..Len(sockets) : Attempts(w) <= 1
    /\ pass.delivered \cap pass.failed = {}
    /\ pass.delivered \cup pass.failed \subseteq {pass.sent[k] : k \in DOMAIN pass.sent}
    /\ pass.outcome = "returned" => \A e \in Throughout : Attempts(e[2]) = 1
    /\ pass.outcome \in {"returned", "raised"} => bcast = NoBroadcast

\* a pass over two subscribers has returned, with one send each: one failed,
\* one delivered
C24_Witness ==
    /\ pass.outcome = "returned"
    /\ Len(pass.sent) = 2
    /\ Cardinality(pass.failed) = 1
    /\ Cardinality(pass.delivered) = 1
    /\ \A e \in pass.clients : Attempts(e[2]) = 1

\* C25: while its for statement runs the broadcast changes nothing in the
\* subscriber dict; a pass that raises removes nobody; a pass that returns
\* removes the handles whose send failed in it, and only those.
C25_PruningIsDeferred ==
    [][/\ (bcast' # bcast /\ pc' = "sending") => websocket_clients' = websocket_clients
       /\ (pass.outcome = "running" /\ pass'.outcome = "raised") =>
             websocket_clients' = websocket_clients
       /\ (pass.outcome = "running" /\ pass'.outcome = "returned") =>
             Items(websocket_clients') =
                {e \in Items(websocket_clients) : e[2] \notin pass'.failed}]_vars

-----------------------------------------------------------------------------
(* Properties of create_alert under two callers, checked under SpecCallers *)

\* Rows i and j carry the same (target, message) pair
SamePairRows(i, j) ==
    alerts[i].server_id = alerts[j].server_id /\ alerts[i].message = alerts[j].message

\* C26: whichever task makes them and however the two tasks interleave, the
\* create_alert calls for one (target, message) pair act one after the other:
\* no two active rows of a pair are created within ten minutes of each other,
\* and every call adds exactly one to the occurrence counts, as a new row of
\* count 1 or as an increment.
C26_CallsAreSerialized ==
    /\ [](\A i, j \in DOMAIN alerts :
            (i < j /\ SamePairRows(i, j) /\ alerts[i].status = "active") =>
                alerts[j].created_at - alerts[i].created_at > DedupMinutes)
    /\ [][TotalCount(alerts') = TotalCount(alerts) + Len(calls')]_vars

\* the iteration for server 1 has stored its record and is about to evaluate a
\* CPU reading above the critical threshold; the other task has just
\* submitted the same violation, which merged into the row the first
\* submission created
C26_Witness ==
    /\ pc = "thresholds"
    /\ cur = 1
    /\ alerts_to_create(health_data) # <<>>
    /\ \E k \in DOMAIN calls :
          /\ calls[k].server_id = 1
          /\ calls[k].message = alerts_to_create(health_data)[1].message
          /\ ~calls[k].created
          /\ alerts[calls[k].id].count = 2

\* The calls of the last step that merged into row i
Hits(i) == {k \in DOMAIN calls' : calls'[k].id = i /\ ~calls'[k].created}

\* C27: the row a create_alert call adds has count 1, status active, the time
\* of the call as created_at, and the target, severity and message of the
\* call; every row has a count of at least 1, which each call merged into the
\* row raises by one and nothing else changes.
C27_CountStartsAtOne ==
    /\ [](/\ \A i \in DOMAIN alerts : alerts[i].count >= 1
          /\ \A k \in DOMAIN calls :
                calls[k].created =>
                    LET row == alerts[calls[k].id]
                    IN  /\ row.count = 1
                        /\ row.status = "active"
                        /\ row.created_at = calls[k].at
                        /\ calls[k].at = now
                        /\ row.server_id = calls[k].server_id
                        /\ row.severity = calls[k].severity
                        /\ row.message = calls[k].message)
    /\ [][\A i \in DOMAIN alerts :
             alerts'[i].count = alerts[i].count + Cardinality(Hits(i))]_vars

\* a row added earlier and merged into once since, and a row that the last
\* call has just added
C27_Witness ==
    /\ now >= 5
    /\ \E i \in DOMAIN alerts : alerts[i].count = 2 /\ alerts[i].created_at < now
    /\ \E k \in DOMAIN calls :
          calls[k].created /\ alerts[calls[k].id].created_at = now

\* C28: no step of the engine takes an alert out of the active status, and no
\* row is deleted: an evaluation that finds no reading over a threshold leaves
\* the Alert table as it was.
C28_NoAutoResolve ==
    [][/\ \A i \in DOMAIN alerts :
             /\ i \in DOMAIN alerts'
             /\ alerts[i].status = "active" => alerts'[i].status = "active"
       /\ (pc = "thresholds" /\ pc' = "broadcast" /\ calls' = <<>>) => alerts' = alerts]_vars

\* the evaluation for server 1 has found no reading over a threshold, and the
\* CPU alert an earlier evaluation raised for it is still active
C28_Witness ==
    /\ pc = "broadcast"
    /\ cur = 1
    /\ calls = <<>>
    /\ alerts_to_create(health_data) = <<>>
    /\ \E i \in DOMAIN alerts :
          /\ alerts[i].server_id = 1
          /\ alerts[i].metric = "cpu_usage"
          /\ alerts[i].status = "active"

-----------------------------------------------------------------------------
(* The engine stopped and started again, checked under SpecRestart *)

\* The tasks of a loop that have entered it and not returned
Running(loop) ==
    {i \in Instances(tasks, loop) : tasks[i].at # "created"}

\* C31: whatever calls of start_monitoring and Stop() have been made, each of
\* the four loops has at most one task that has entered the loop and has not
\* returned from it.
C31_OneInstancePerLoop ==
    \A n \in 1..Len(Loops) : Cardinality(Running(Loops[n])) <= 1

-----------------------------------------------------------------------------
(* Connections under one client id, checked under SpecHub *)

\* Connection w is the latest one accepted under its client id
Latest(w) ==
    \A v \in 1..Len(sockets) : v > w => sockets[v].client_id # sockets[w].client_id

\* C32: a connection whose peer is there, and after which no other has
\* subscribed under its client id, is registered: neither the teardown of an
\* older connection under that id nor anything else has removed it.
C32_LiveConnectionStaysRegistered ==
    \A w \in 1..Len(sockets) :
        (sockets[w].state = "open" /\ Latest(w)) =>
            <<sockets[w].client_id, w>> \in Items(websocket_clients)

-----------------------------------------------------------------------------
(* The alert of the except clause, checked under SpecTick *)

\* Call c is the create_alert of the except clause of the iteration
FailureAlert(c) == c.severity = "critical" /\ c.message[1] = "Health check failed: "

\* C33: the iteration for a server creates a 'Health check failed' alert only
\* when the health check of that server has failed: not because the store, the
\* threshold evaluation or the broadcast raised.
C33_FailureAlertMeansProbeFailed ==
    [][\A k \in DOMAIN calls' :
          FailureAlert(calls'[k]) =>
              (calls'[k].server_id = cur /\ ProbeFailed(health_data))]_vars

-----------------------------------------------------------------------------
(* The verdict of a bundle and the alerts raised from it, checked under SpecTick *)

\* The calls the threshold evaluation of the bundle made with this severity
RaisedWith(severity) == {k \in DOMAIN calls : calls[k].severity = severity}

\* Critical alert implies critical verdict, warning alert implies a verdict of
\* warning or critical, healthy verdict implies no alert
AlertsFollowVerdict ==
    pc = "broadcast" =>
        /\ RaisedWith("critical") # {} => health_data.overall_status = "critical"
        /\ RaisedWith("warning") # {} =>
              health_data.overall_status \in {"warning", "critical"}
        /\ health_data.overall_status = "healthy" => calls = <<>>

\* C34: once the thresholds of a bundle have been evaluated, its verdict and
\* the alerts raised from it agree: the three implications above, and a
\* critical verdict comes with at least one critical alert for the server.
C34_VerdictAndAlertsAgree ==
    /\ AlertsFollowVerdict
    /\ (pc = "broadcast" /\ health_data.overall_status = "critical") =>
          \E k \in RaisedWith("critical") : calls[k].server_id = cur

-----------------------------------------------------------------------------
(* The outcome of run_health_check, checked under SpecAssess *)

\* The handler of run_health_check itself caught an exception (lines 118-122)
CaughtByCheck(hd) == "error" \in DOMAIN hd.checks

\* A metrics provider caught an exception of its own and put the text in the
\* dict that run_health_check merges into the bundle: psutil failing (182-184,
\* 229-231) or the HTTP request failing (215-219)
CaughtByProvider(hd) ==
    \/ "error" \in DOMAIN hd
    \/ "http_check" \in DOMAIN hd /\ "error" \in DOMAIN hd.http_check

ExceptionOccurred(hd) == CaughtByCheck(hd) \/ CaughtByProvider(hd)

\* What does hold of every returned bundle: the verdict is one of the four, and
\* it is 'unhealthy' exactly when the check's own handler ran
VerdictOfHandler ==
    on_demand # EmptyDict =>
        /\ on_demand.overall_status \in {"healthy", "warning", "critical", "unhealthy"}
        /\ on_demand.overall_status = "unhealthy" <=> CaughtByCheck(on_demand)

\* C35: run_health_check returns a bundle for every target and probe outcome;
\* its overall_status is healthy, warning, critical or unhealthy; it is
\* unhealthy exactly when an exception occurred during the check, and then the
\* error is recorded under checks.
C35_UnhealthyIffException ==
    on_demand # EmptyDict =>
        /\ on_demand.overall_status \in {"healthy", "warning", "critical", "unhealthy"}
        /\ on_demand.overall_status = "unhealthy" <=> ExceptionOccurred(on_demand)
        /\ ExceptionOccurred(on_demand) => CaughtByCheck(on_demand)

-----------------------------------------------------------------------------
(* The frame of a deduplicated create_alert call, checked under Spec *)

\* The columns of an alert row other than count and updated_at
FrameColumns == {"server_id", "severity", "message", "status", "metric", "value", "created_at"}

\* The calls of the last step that added a row
Adds == {k \in DOMAIN calls' : calls'[k].created}

\* C36: a create_alert call that finds an existing row changes only count and
\* updated_at of that row: its severity, message, status, created_at, metric
\* and value stay as they were, no row is added or removed, and every other
\* row stays as it was.
C36_HitTouchesCountAndTimeOnly ==
    [][/\ \A i \in DOMAIN alerts :
             IF Hits(i) # {}
             THEN /\ \A col \in FrameColumns : alerts'[i][col] = alerts[i][col]
                  /\ alerts'[i].count = alerts[i].count + Cardinality(Hits(i))
                  /\ alerts'[i].updated_at = now
             ELSE alerts'[i] = alerts[i]
       /\ Len(alerts') = Len(alerts) + Cardinality(Adds)]_vars

\* The last call carried a reading of 92.04 and merged into the row that was
\* created for a reading of 92.00: the row still holds 92.00
C36_Witness ==
    \E k \in DOMAIN calls :
        /\ ~calls[k].created
        /\ calls[k].value = 9204
        /\ alerts[calls[k].id].value = 9200
        /\ alerts[calls[k].id].count = 2
        /\ alerts[calls[k].id].updated_at = now
        /\ alerts[calls[k].id].created_at < now
        /\ Len(alerts) = 1

=============================================================================
